---------------------------- MODULE Spec2Model ----------------------------
(***************************************************************************)
(* Task-Tracker front end: the AppProvider store (reducer + api wrappers)   *)
(* of src/src/AppProvider.tsx and the TaskListScreen callbacks of           *)
(* src/unnamed/part_000, with the REST server they talk to as environment.  *)
(***************************************************************************)
EXTENDS Integers, Sequences, FiniteSets, TLC

(***************************************************************************)
(* Bounds and universes                                                     *)
(***************************************************************************)
\* Largest number of cached entities (task lists plus tasks of all slices)
\* a store state may hold.
MaxEntities == 3
\* Largest number of api calls the callers issue in one run of Spec; the
\* provider's own fetchTaskLists on mount and the refetch chained by
\* toggleStatus are not counted.
MaxCalls == 2
\* The same for one run of SpecTasks (fetchTasks and toggleStatus only).
MaxTaskCalls == 4
\* Largest number of requests in flight at the same time.
MaxInFlight == 2
\* Largest number of clicks and route changes in one run of SpecScreen.
MaxClicks == 1

ListIds == {"L1", "L2"}
TaskIds == {"T1", "T2"}
Titles == {"a", "b"}
\* TaskStatus (src/unnamed/part_000:21, 66, 80)
OPEN == "OPEN"
CLOSED == "CLOSED"
TaskStatus == {OPEN, CLOSED}

\* domain/TaskList and domain/Task, reduced to the fields the code reads
\* (id, status) plus one field (title) that tells two versions apart.
TaskList == [id : ListIds, title : Titles]
Task == [id : TaskIds, status : TaskStatus]

\* Action types (AppProvider.tsx:27-36)
FETCH_TASKLISTS == "FETCH_TASKLISTS"
GET_TASKLIST == "GET_TASKLIST"
CREATE_TASKLIST == "CREATE_TASKLIST"
UPDATE_TASKLIST == "UPDATE_TASKLIST"
DELETE_TASKLIST == "DELETE_TASKLIST"
FETCH_TASKS == "FETCH_TASKS"
CREATE_TASK == "CREATE_TASK"
GET_TASK == "GET_TASK"
UPDATE_TASK == "UPDATE_TASK"
DELETE_TASK == "DELETE_TASK"

VARIABLES
    state,       \* useReducer state: [taskLists, tasks]
    fault,       \* TRUE once the reducer has thrown (TypeError on an absent slice)
    prev,        \* history: the state before the last step
    lastAction,  \* history: the action the last step dispatched (NoAction: none)
    lastRef,     \* history: the task each command sequence last wrote per id
    server,      \* environment: the REST server's task lists and tasks
    inflight,    \* axios requests awaiting their response or its delivery
    lastSettled, \* history: the api promise the last step settled, and how
    budget,      \* number of api calls the callers may still issue
    screen       \* TaskListScreen: mounted, listId, isLoading, effect due

storeVars == <<state, fault, prev, lastAction, lastRef>>
netVars == <<server, inflight, lastSettled, budget, screen>>
vars == <<state, fault, prev, lastAction, lastRef, server, inflight, lastSettled,
          budget, screen>>

(***************************************************************************)
(* Sequence helpers: Array.prototype.some / map / filter and spread         *)
(***************************************************************************)
\* arr.some(x => x.id === id)
SomeId(arr, id) == \E i \in 1..Len(arr) : arr[i].id = id

\* arr.map(x => x.id === id ? repl : x)
MapReplace(arr, id, repl) ==
    [i \in 1..Len(arr) |-> IF arr[i].id = id THEN repl ELSE arr[i]]

\* arr.filter(x => x.id !== id)
RECURSIVE FilterOut(_, _)
FilterOut(arr, id) ==
    IF arr = <<>> THEN <<>>
    ELSE IF Head(arr).id # id
         THEN <<Head(arr)>> \o FilterOut(Tail(arr), id)
         ELSE FilterOut(Tail(arr), id)

\* { ...obj, [key]: value }
Spread(obj, key, value) ==
    [k \in (DOMAIN obj) \cup {key} |-> IF k = key THEN value ELSE obj[k]]

\* state.tasks[id] || []
SliceOrEmpty(s, id) == IF id \in DOMAIN s.tasks THEN s.tasks[id] ELSE <<>>

(***************************************************************************)
(* The reducer (AppProvider.tsx:46-135)                                     *)
(***************************************************************************)
\* initialState (AppProvider.tsx:138-141): tasks is the object with no keys.
initialState == [taskLists |-> <<>>, tasks |-> [l \in {} |-> <<>>]]

\* What a call of the reducer produces: a new state, or a TypeError thrown
\* before any state is built (state is then the one passed in).
Ok(s) == [threw |-> FALSE, state |-> s]
TypeError(s) == [threw |-> TRUE, state |-> s]

\* A FETCH_TASKLISTS that adds the payload to what is cached instead of
\* replacing it.
ReduceFetchTaskListsMerging(s, a) ==
    [s EXCEPT !.taskLists = s.taskLists \o a.payload]

ReduceFetchTaskLists(s, a) == [s EXCEPT !.taskLists = a.payload]

ReduceGetTaskList(s, a) ==
    [s EXCEPT !.taskLists =
        IF SomeId(s.taskLists, a.payload.id)
        THEN MapReplace(s.taskLists, a.payload.id, a.payload)
        ELSE Append(s.taskLists, a.payload)]

ReduceCreateTaskList(s, a) ==
    [s EXCEPT !.taskLists = Append(s.taskLists, a.payload)]

\* An UPDATE_TASKLIST that appends a task list it does not find.
ReduceUpdateTaskListUpserting(s, a) ==
    [s EXCEPT !.taskLists =
        IF SomeId(s.taskLists, a.payload.id)
        THEN MapReplace(s.taskLists, a.payload.id, a.payload)
        ELSE Append(s.taskLists, a.payload)]

ReduceUpdateTaskList(s, a) ==
    [s EXCEPT !.taskLists = MapReplace(s.taskLists, a.payload.id, a.payload)]

\* A DELETE_TASKLIST whose filter is inverted: it keeps the matching entries.
ReduceDeleteTaskListInverted(s, a) ==
    [s EXCEPT !.taskLists = SelectSeq(s.taskLists, LAMBDA x : x.id = a.payload)]

\* A DELETE_TASKLIST that also drops the cached tasks of the list.
ReduceDeleteTaskListCascading(s, a) ==
    [taskLists |-> FilterOut(s.taskLists, a.payload),
     tasks |-> [l \in DOMAIN s.tasks \ {a.payload} |-> s.tasks[l]]]

ReduceDeleteTaskList(s, a) ==
    [s EXCEPT !.taskLists = FilterOut(s.taskLists, a.payload)]

\* A FETCH_TASKS that stores nothing for an empty array.
ReduceFetchTasksSkippingEmpty(s, a) ==
    IF a.payload.tasks = <<>>
    THEN s
    ELSE [s EXCEPT !.tasks =
            Spread(s.tasks, a.payload.taskListId, a.payload.tasks)]

\* A FETCH_TASKS that keeps a slice that is already cached.
ReduceFetchTasksKeeping(s, a) ==
    IF a.payload.taskListId \in DOMAIN s.tasks
    THEN s
    ELSE [s EXCEPT !.tasks =
            Spread(s.tasks, a.payload.taskListId, a.payload.tasks)]

ReduceFetchTasks(s, a) ==
    [s EXCEPT !.tasks = Spread(s.tasks, a.payload.taskListId, a.payload.tasks)]

ReduceCreateTask(s, a) ==
    [s EXCEPT !.tasks =
        Spread(s.tasks, a.payload.taskListId,
               Append(SliceOrEmpty(s, a.payload.taskListId), a.payload.task))]

\* A GET_TASK that appends whether or not the task is cached.
ReduceGetTaskAppending(s, a) ==
    [s EXCEPT !.tasks =
        Spread(s.tasks, a.payload.taskListId,
               Append(SliceOrEmpty(s, a.payload.taskListId), a.payload.task))]

ReduceGetTask(s, a) ==
    LET existingTasks == SliceOrEmpty(s, a.payload.taskListId)
        taskExists == SomeId(existingTasks, a.payload.task.id)
        updatedTasks ==
            IF taskExists
            THEN MapReplace(existingTasks, a.payload.task.id, a.payload.task)
            ELSE Append(existingTasks, a.payload.task)
    IN  [s EXCEPT !.tasks = Spread(s.tasks, a.payload.taskListId, updatedTasks)]

\* An UPDATE_TASK that leaves the cached task as it is.
ReduceUpdateTaskKeeping(s, a) ==
    IF a.payload.taskListId \notin DOMAIN s.tasks THEN TypeError(s) ELSE Ok(s)

\* UPDATE_TASK and DELETE_TASK call .map / .filter on state.tasks[taskListId]
\* with no default: on an absent slice (undefined) that is a TypeError.
ReduceUpdateTask(s, a) ==
    IF a.payload.taskListId \notin DOMAIN s.tasks
    THEN TypeError(s)
    ELSE Ok([s EXCEPT !.tasks =
                Spread(s.tasks, a.payload.taskListId,
                       MapReplace(s.tasks[a.payload.taskListId],
                                  a.payload.taskId, a.payload.task))])

\* A DELETE_TASK that defaults an absent slice to [], as CREATE_TASK does.
ReduceDeleteTaskDefault(s, a) ==
    Ok([s EXCEPT !.tasks =
            Spread(s.tasks, a.payload.taskListId,
                   FilterOut(SliceOrEmpty(s, a.payload.taskListId),
                             a.payload.taskId))])

ReduceDeleteTask(s, a) ==
    IF a.payload.taskListId \notin DOMAIN s.tasks
    THEN TypeError(s)
    ELSE Ok([s EXCEPT !.tasks =
                Spread(s.tasks, a.payload.taskListId,
                       FilterOut(s.tasks[a.payload.taskListId],
                                 a.payload.taskId))])

\* The switch.
reducer(s, a) ==
    CASE a.type = FETCH_TASKLISTS -> Ok(ReduceFetchTaskLists(s, a))
      [] a.type = GET_TASKLIST -> Ok(ReduceGetTaskList(s, a))
      [] a.type = CREATE_TASKLIST -> Ok(ReduceCreateTaskList(s, a))
      [] a.type = UPDATE_TASKLIST -> Ok(ReduceUpdateTaskList(s, a))
      [] a.type = DELETE_TASKLIST -> Ok(ReduceDeleteTaskList(s, a))
      [] a.type = FETCH_TASKS -> Ok(ReduceFetchTasks(s, a))
      [] a.type = CREATE_TASK -> Ok(ReduceCreateTask(s, a))
      [] a.type = GET_TASK -> Ok(ReduceGetTask(s, a))
      [] a.type = UPDATE_TASK -> ReduceUpdateTask(s, a)
      [] a.type = DELETE_TASK -> ReduceDeleteTask(s, a)
      [] OTHER -> Ok(s)

\* History: per list and task id, the task object carried by the last command
\* that referenced the id (<<task>>), or <<>> when the last one removed it or
\* none has named it. ReplaceTaskField names an id only where it is known.
NoRefs == [l \in ListIds |-> [t \in TaskIds |-> <<>>]]

WithId(arr, id) == SelectSeq(arr, LAMBDA x : x.id = id)

Track(ref, a) ==
    CASE a.type = FETCH_TASKS ->
            [ref EXCEPT ![a.payload.taskListId] =
                [t \in TaskIds |-> WithId(a.payload.tasks, t)]]
      [] a.type \in {CREATE_TASK, GET_TASK} ->
            [ref EXCEPT ![a.payload.taskListId][a.payload.task.id] =
                <<a.payload.task>>]
      [] a.type = UPDATE_TASK ->
            [ref EXCEPT ![a.payload.taskListId][a.payload.taskId] =
                IF @ = <<>> THEN <<>> ELSE <<a.payload.task>>]
      [] a.type = DELETE_TASK ->
            [ref EXCEPT ![a.payload.taskListId][a.payload.taskId] = <<>>]
      [] OTHER -> ref

\* dispatch(action): the reducer runs on the current state; when it throws,
\* no new state is produced and the provider is gone (fault).
Dispatch(a) ==
    \E res \in {reducer(state, a)} :
        /\ prev' = state
        /\ lastAction' = a
        /\ fault' = res.threw
        /\ state' = res.state
        /\ lastRef' = IF res.threw THEN lastRef ELSE Track(lastRef, a)

NoAction == [type |-> "NONE", payload |-> <<>>]

(***************************************************************************)
(* The REST server (environment): one store of task lists and tasks, ids    *)
(* assigned by the server in the order ListIdSeq / TaskIdSeq.               *)
(***************************************************************************)
ListIdSeq == <<"L1", "L2">>
TaskIdSeq == <<"T1", "T2">>

\* arr.find(x => x.id === id), for an id known to be there
Find(arr, id) == arr[CHOOSE i \in 1..Len(arr) : arr[i].id = id]

InitServer ==
    [lists |-> <<[id |-> "L1", title |-> "a"]>>,
     tasks |-> [l \in ListIds |->
                   IF l = "L1" THEN <<[id |-> "T1", status |-> OPEN]>> ELSE <<>>],
     nextList |-> 2,
     nextTask |-> 2]

\* A server whose list L1 holds an open and a closed task.
TwoTaskServer ==
    [lists |-> <<[id |-> "L1", title |-> "a"]>>,
     tasks |-> [l \in ListIds |->
                   IF l = "L1"
                   THEN <<[id |-> "T1", status |-> OPEN],
                          [id |-> "T2", status |-> CLOSED]>>
                   ELSE <<>>],
     nextList |-> 2,
     nextTask |-> 3]

Reply(status, data, srv) == [status |-> status, data |-> data, srv |-> srv]

\* What the server answers to request r in store srv, and the store after it.
Serve(srv, r) ==
    LET listOk == SomeId(srv.lists, r.listId)
        taskOk == listOk /\ SomeId(srv.tasks[r.listId], r.taskId)
        notFound == Reply(404, <<>>, srv)
    IN
    CASE r.op = "fetchTaskLists" -> Reply(200, srv.lists, srv)
      [] r.op = "getTaskList" ->
            IF listOk THEN Reply(200, <<Find(srv.lists, r.listId)>>, srv)
            ELSE notFound
      [] r.op = "createTaskList" ->
            IF srv.nextList <= Len(ListIdSeq)
            THEN LET new == [id |-> ListIdSeq[srv.nextList],
                             title |-> r.arg[1].title]
                 IN Reply(201, <<new>>,
                          [srv EXCEPT !.lists = Append(@, new),
                                      !.nextList = @ + 1])
            ELSE Reply(500, <<>>, srv)
      [] r.op = "updateTaskList" ->
            IF listOk
            THEN LET new == [id |-> r.listId, title |-> r.arg[1].title]
                 IN Reply(200, <<new>>,
                          [srv EXCEPT !.lists = MapReplace(@, r.listId, new)])
            ELSE notFound
      [] r.op = "deleteTaskList" ->
            IF listOk
            THEN Reply(204, <<>>,
                       [srv EXCEPT !.lists = FilterOut(@, r.listId),
                                   !.tasks[r.listId] = <<>>])
            ELSE notFound
      [] r.op = "fetchTasks" ->
            IF listOk THEN Reply(200, srv.tasks[r.listId], srv) ELSE notFound
      [] r.op = "createTask" ->
            IF listOk /\ srv.nextTask <= Len(TaskIdSeq)
            THEN LET new == [id |-> TaskIdSeq[srv.nextTask],
                             status |-> r.arg[1].status]
                 IN Reply(201, <<new>>,
                          [srv EXCEPT !.tasks[r.listId] = Append(@, new),
                                      !.nextTask = @ + 1])
            ELSE IF listOk THEN Reply(500, <<>>, srv) ELSE notFound
      [] r.op = "getTask" ->
            IF taskOk
            THEN Reply(200, <<Find(srv.tasks[r.listId], r.taskId)>>, srv)
            ELSE notFound
      [] r.op = "updateTask" ->
            IF taskOk
            THEN LET new == [id |-> r.taskId, status |-> r.arg[1].status]
                 IN Reply(200, <<new>>,
                          [srv EXCEPT !.tasks[r.listId] =
                                          MapReplace(@, r.taskId, new)])
            ELSE notFound
      [] r.op = "deleteTask" ->
            IF taskOk
            THEN Reply(204, <<>>,
                       [srv EXCEPT !.tasks[r.listId] = FilterOut(@, r.taskId)])
            ELSE notFound

(***************************************************************************)
(* The api object (AppProvider.tsx:182-359)                                 *)
(***************************************************************************)
None == "-"

\* One axios request: the api function that sent it, its arguments, who
\* waits on its promise (role), the number n of the caller's call it belongs
\* to, and the response once the server has answered.
\*   role "mount"   the provider's useEffect (AppProvider.tsx:361-363), n = 0
\*   role "call"    a caller that awaits or catches the promise itself
\*   role "toggle"  toggleStatus's updateTask, with its .then(refetch)
\*   role "refetch" the fetchTasks chained by the toggle of call n
Request(op, listId, taskId, arg, role, n) ==
    [op |-> op, listId |-> listId, taskId |-> taskId, arg |-> arg,
     role |-> role, n |-> n,
     phase |-> "sent", status |-> 0, data |-> <<>>]

NoRequest == Request("none", None, None, <<>>, "none", 0)

\* axios resolves on validateStatus (2xx) and rejects on anything else,
\* a transport error or timeout (status 0: no response) included.
Succeeds(status) == status >= 200 /\ status < 300

\* An updateTask that dispatches the task the caller passed in instead of
\* response.data.
UpdateTaskPayloadOptimistic(r) ==
    [taskListId |-> r.listId, taskId |-> r.taskId, task |-> r.arg[1]]

\* The payload updateTask dispatches: the ids of the call, and response.data.
UpdateTaskPayload(r) ==
    [taskListId |-> r.listId, taskId |-> r.taskId, task |-> r.data[1]]

\* A createTask that stores its draft under an id the client picks.
CreateTaskPayloadDraft(r) ==
    [taskListId |-> r.listId,
     task |-> [id |-> TaskIdSeq[1], status |-> r.arg[1].status]]

\* createTask dispatches the task of the response body (AppProvider.tsx:311-314).
CreateTaskPayload(r) ==
    [taskListId |-> r.listId, task |-> r.data[1]]

\* The action each api function dispatches after its await.
CommandOf(r) ==
    CASE r.op = "fetchTaskLists" -> [type |-> FETCH_TASKLISTS, payload |-> r.data]
      [] r.op = "getTaskList" -> [type |-> GET_TASKLIST, payload |-> r.data[1]]
      [] r.op = "createTaskList" -> [type |-> CREATE_TASKLIST, payload |-> r.data[1]]
      [] r.op = "updateTaskList" -> [type |-> UPDATE_TASKLIST, payload |-> r.data[1]]
      [] r.op = "deleteTaskList" -> [type |-> DELETE_TASKLIST, payload |-> r.listId]
      [] r.op = "fetchTasks" ->
            [type |-> FETCH_TASKS,
             payload |-> [taskListId |-> r.listId, tasks |-> r.data]]
      [] r.op = "createTask" ->
            [type |-> CREATE_TASK, payload |-> CreateTaskPayload(r)]
      [] r.op = "getTask" ->
            [type |-> GET_TASK,
             payload |-> [taskListId |-> r.listId, task |-> r.data[1]]]
      [] r.op = "updateTask" ->
            [type |-> UPDATE_TASK, payload |-> UpdateTaskPayload(r)]
      [] r.op = "deleteTask" ->
            [type |-> DELETE_TASK,
             payload |-> [taskListId |-> r.listId, taskId |-> r.taskId]]

\* A step that dispatches nothing: the store is as it was.
NoDispatch ==
    /\ prev' = state
    /\ lastAction' = NoAction
    /\ UNCHANGED <<state, fault, lastRef>>

\* How a promise settled: the call, its response status, and the outcome.
Settled(r, status, outcome) ==
    [op |-> r.op, listId |-> r.listId, taskId |-> r.taskId, arg |-> r.arg,
     role |-> r.role, status |-> status, outcome |-> outcome]

\* A step in which no promise settles.
NothingSettled == Settled(NoRequest, 0, "none")

\* useParams() yields no listId when the route has none.
Undefined == "undefined"

\* The TaskListScreen instance on display:
\*   mounted    FALSE once the user has left the screen (or never opened it)
\*   listId     the route parameter, or Undefined
\*   isLoading  useState(true) (part_000:26)
\*   effect     TRUE when the load effect is due: after the first render and
\*              after every render in which a dependency changed
\*   aborted    history: the handler that logged "listId is undefined" and
\*              returned in the last step, "none" otherwise
NoScreen ==
    [mounted |-> FALSE, listId |-> Undefined, isLoading |-> FALSE,
     effect |-> FALSE, aborted |-> "none"]

\* The screen after a step that leaves it alone.
Quiet(sc) == [sc EXCEPT !.aborted = "none"]

\* An api function up to its await: the request goes out, nothing else happens.
Issue(r) ==
    /\ ~fault
    /\ budget > 0
    /\ Cardinality(inflight) < MaxInFlight
    /\ inflight' = inflight \cup {r}
    /\ budget' = budget - 1
    /\ NoDispatch
    /\ lastSettled' = NothingSettled
    /\ screen' = Quiet(screen)
    /\ UNCHANGED server

\* Request q comes from the same api function called with the same arguments.
SameCall(q, op, listId, taskId, arg) ==
    /\ q.role = "call"
    /\ q.op = op
    /\ q.listId = listId
    /\ q.taskId = taskId
    /\ q.arg = arg

\* Two calls with the same arguments are two requests: the number n tells
\* them apart while both are in flight (the least number not in use).
Slot(op, listId, taskId, arg) ==
    CHOOSE k \in 0..Cardinality(inflight) :
        /\ \A q \in inflight : SameCall(q, op, listId, taskId, arg) => q.n # k
        /\ \A j \in 0..(k - 1) :
              \E q \in inflight : SameCall(q, op, listId, taskId, arg) /\ q.n = j

Call(op, listId, taskId, arg) ==
    Request(op, listId, taskId, arg, "call", Slot(op, listId, taskId, arg))

fetchTaskLists ==
    /\ Issue(Call("fetchTaskLists", None, None, <<>>))

getTaskList ==
    \E id \in ListIds :
        /\ Issue(Call("getTaskList", id, None, <<>>))

createTaskList ==
    \E title \in Titles :
        /\ Issue(Call("createTaskList", None, None, <<[title |-> title]>>))

updateTaskList ==
    \E id \in ListIds, title \in Titles :
        /\ Issue(Call("updateTaskList", id, None, <<[id |-> id, title |-> title]>>))

deleteTaskList ==
    \E id \in ListIds :
        /\ Issue(Call("deleteTaskList", id, None, <<>>))

fetchTasks ==
    \E taskListId \in ListIds :
        /\ Issue(Call("fetchTasks", taskListId, None, <<>>))

createTask ==
    \E taskListId \in ListIds, status \in TaskStatus :
        /\ Issue(Call("createTask", taskListId, None, <<[status |-> status]>>))

getTask ==
    \E taskListId \in ListIds, taskId \in TaskIds :
        /\ Issue(Call("getTask", taskListId, taskId, <<>>))

updateTask ==
    \E taskListId \in ListIds, taskId \in TaskIds, task \in Task :
        /\ Issue(Call("updateTask", taskListId, taskId, <<task>>))

deleteTask ==
    \E taskListId \in ListIds, taskId \in TaskIds :
        /\ Issue(Call("deleteTask", taskListId, taskId, <<>>))

(***************************************************************************)
(* TaskListScreen.completionPercentage (src/unnamed/part_000:62-71)         *)
(***************************************************************************)
\* A JavaScript number is an IEEE 754 double: a significand of Precision
\* bits and a binary exponent, every operation rounded to nearest, ties to
\* even. A double d > 0 is kept as [sig, exp]: sig = <<hi, mid, lo>> holds the
\* significand m = hi * Limb^2 + mid * Limb + lo in three limbs, with
\* 2^(Precision-1) <= m < 2^Precision, and d = m * 2^(exp - (Precision-1)).
\* Zero is DoubleZero.
Precision == 53
LimbBits == 18
Limb == 2 ^ LimbBits
\* The leading limb holds the bits the two other limbs leave: hi < TopLimb.
TopLimb == 2 ^ (Precision - 2 * LimbBits)

DoubleZero == [sig |-> <<0, 0, 0>>, exp |-> 0]

\* Rounding: the significand kept, one unit in the last place added when up.
RoundTo(sig, exp, up) ==
    LET lo == sig[3] + (IF up THEN 1 ELSE 0)
        mid == sig[2] + lo \div Limb
        hi == sig[1] + mid \div Limb
    IN  IF hi = TopLimb
        THEN [sig |-> <<TopLimb \div 2, 0, 0>>, exp |-> exp + 1]
        ELSE [sig |-> <<hi, mid % Limb, lo % Limb>>, exp |-> exp]

\* x / y scaled by a power of two into [1, 2): x / y * 2^e is the quotient.
RECURSIVE Normalise(_, _, _)
Normalise(x, y, e) ==
    IF x < y THEN Normalise(2 * x, y, e - 1)
    ELSE IF x >= 2 * y THEN Normalise(x, 2 * y, e + 1)
    ELSE [x |-> x, y |-> y, e |-> e]

\* The double a / b for small naturals a and b > 0 (both exact as doubles):
\* long division, one limb at a time, then the rounding on the remainder.
DoubleDivide(a, b) ==
    IF a = 0
    THEN DoubleZero
    ELSE LET n == Normalise(a, b, 0)
             t1 == n.x * (TopLimb \div 2)
             t2 == (t1 % n.y) * Limb
             t3 == (t2 % n.y) * Limb
             rem == t3 % n.y
             lo == t3 \div n.y
             up == \/ 2 * rem > n.y
                   \/ 2 * rem = n.y /\ lo % 2 = 1
         IN  RoundTo(<<t1 \div n.y, t2 \div n.y, lo>>, n.e, up)

\* The double d * k for a small natural k > 0 (exact as a double): the exact
\* product p1 * Limb^2 + p2 * Limb + p3, shifted right by the s bits it has
\* too many, rounded once on the bits shifted out.
DoubleTimes(d, k) ==
    IF d = DoubleZero
    THEN DoubleZero
    ELSE LET l3 == d.sig[3] * k
             l2 == d.sig[2] * k + l3 \div Limb
             p1 == d.sig[1] * k + l2 \div Limb
             p2 == l2 % Limb
             p3 == l3 % Limb
             s == CHOOSE i \in 0..(LimbBits - 1) : p1 \div (2 ^ i) < TopLimb
             out == p3 % (2 ^ s)
             lo == p3 \div (2 ^ s) + (p2 % (2 ^ s)) * (2 ^ (LimbBits - s))
             mid == p2 \div (2 ^ s) + (p1 % (2 ^ s)) * (2 ^ (LimbBits - s))
             up == /\ s > 0
                   /\ \/ 2 * out > 2 ^ s
                      \/ 2 * out = 2 ^ s /\ lo % 2 = 1
         IN  RoundTo(<<p1 \div (2 ^ s), mid, lo>>, d.exp + s, up)

\* The double of a small natural number (a number literal, a length).
Double(n) == DoubleDivide(n, 1)

\* A completion percentage that counts the tasks still OPEN.
completionPercentageOfOpen(s, listId) ==
    IF listId # Undefined /\ listId \in DOMAIN s.tasks
    THEN LET tasks == s.tasks[listId]
             openTaskCount ==
                 Len(SelectSeq(tasks, LAMBDA task : task.status = OPEN))
         IN  IF Len(tasks) > 0
             THEN DoubleTimes(DoubleDivide(openTaskCount, Len(tasks)), 100)
             ELSE DoubleZero
    ELSE DoubleZero

\* (closeTaskCount / tasks.length) * 100 in double arithmetic, the division
\* first; 0 for an empty or absent slice or a missing listId.
completionPercentage(s, listId) ==
    IF listId # Undefined /\ listId \in DOMAIN s.tasks
    THEN LET tasks == s.tasks[listId]
             closeTaskCount ==
                 Len(SelectSeq(tasks, LAMBDA task : task.status = CLOSED))
         IN  IF Len(tasks) > 0
             THEN DoubleTimes(DoubleDivide(closeTaskCount, Len(tasks)), 100)
             ELSE DoubleZero
    ELSE DoubleZero

(***************************************************************************)
(* TaskListScreen.toggleStatus (src/unnamed/part_000:73-86)                 *)
(***************************************************************************)
Flip(status) == IF status = CLOSED THEN OPEN ELSE CLOSED

\* The checkbox of a rendered row: listId is the route parameter and task a
\* row of state.tasks[listId] (tableRows, part_000:101-105).
toggleStatus ==
    \E listId \in DOMAIN state.tasks :
      \E i \in 1..Len(state.tasks[listId]) :
        LET task == state.tasks[listId][i]
            updatedTask == [task EXCEPT !.status = Flip(task.status)]
        IN  Issue(Request("updateTask", listId, task.id, <<updatedTask>>,
                          "toggle", budget))

\* .then(() => api.fetchTasks(listId!)).catch(...): what follows the settled
\* promise of request r. Only toggleStatus chains a request, and only on
\* fulfilment.
\* A toggleStatus that refetches in a finally, whatever came of the update.
ChainFinally(r, outcome) ==
    IF r.role = "toggle"
    THEN {Request("fetchTasks", r.listId, None, <<>>, "refetch", r.n)}
    ELSE {}

Chain(r, outcome) ==
    IF r.role = "toggle" /\ outcome = "resolved"
    THEN {Request("fetchTasks", r.listId, None, <<>>, "refetch", r.n)}
    ELSE {}

(***************************************************************************)
(* TaskListScreen: the load effect and the buttons (src/unnamed/part_000)   *)
(***************************************************************************)
\* A request of the screen with role role; n tells it from the same request
\* of another run that is in flight (the least number not in use in pool).
ScreenRequest(op, listId, taskId, role, pool) ==
    LET same == {q \in pool : q.role = role /\ q.op = op /\ q.listId = listId
                                /\ q.taskId = taskId}
        n == CHOOSE k \in 0..Cardinality(pool) :
                /\ \A q \in same : q.n # k
                /\ \A j \in 0..(k - 1) : \E q \in same : q.n = j
    IN  Request(op, listId, taskId, <<>>, role, n)

\* A load that goes on to fetch the tasks whatever came of getTaskList.
LoadChainAlways(r, outcome, pool) ==
    IF r.role = "loadGet"
    THEN {ScreenRequest("fetchTasks", r.listId, None, "loadFetch", pool)}
    ELSE {}

\* loadInitialData after its first await (part_000:43-47): once
\* api.getTaskList has resolved, api.fetchTasks(listId) is called. A rejected
\* getTaskList goes to the outer catch.
\*   role "loadGet"    the load's getTaskList
\*   role "loadFetch"  the load's fetchTasks
LoadChain(r, outcome, pool) ==
    IF r.role = "loadGet" /\ outcome = "resolved"
    THEN {ScreenRequest("fetchTasks", r.listId, None, "loadFetch", pool)}
    ELSE {}

\* The load of request r ends with this settlement: finally (part_000:53-55).
LoadEnds(r, outcome) ==
    \/ r.role = "loadFetch"
    \/ r.role = "loadGet" /\ outcome = "rejected"

\* The screen after the promise of r has settled. dispatched: the reducer
\* returned a new state, so AppProvider renders again with a new api object
\* and the screen's load effect, which depends on api, is due again.
\*   role "screenDelete": the screen's deleteTaskList, which navigates to "/"
\*   once api.deleteTaskList has resolved (part_000:94-95).
\* setIsLoading on a screen that is gone does nothing.
ScreenAfter(sc, r, outcome, dispatched) ==
    IF ~sc.mounted THEN Quiet(sc)
    ELSE IF r.role = "screenDelete" /\ outcome = "resolved"
    THEN [Quiet(sc) EXCEPT !.mounted = FALSE, !.effect = FALSE]
    ELSE [Quiet(sc) EXCEPT
            !.isLoading = IF LoadEnds(r, outcome) THEN FALSE ELSE @,
            !.effect = @ \/ dispatched]

\* A handler without the guard: it goes on to call the api with no listId.
AbortMissing(handler) ==
    /\ screen.listId = Undefined
    /\ Issue(Request("fetchTasks", Undefined, None, <<>>, "call", 0))

\* if (!listId) { console.error("listId is undefined"); return; }
\* The handler returns before it touches the api.
Abort(handler) ==
    /\ ~fault
    /\ screen.listId = Undefined
    /\ screen' = [screen EXCEPT !.aborted = handler]
    /\ NoDispatch
    /\ lastSettled' = NothingSettled
    /\ UNCHANGED <<server, inflight, budget>>

\* The load effect (part_000:33-59) runs: loadInitialData up to its first
\* await. Without a listId it ends at once with isLoading false; with one it
\* sets isLoading and calls getTaskList when the list is not in taskLists,
\* fetchTasks otherwise.
loadInitialData ==
    /\ ~fault
    /\ screen.mounted
    /\ screen.effect
    /\ IF screen.listId = Undefined
       THEN /\ screen' = [screen EXCEPT !.isLoading = FALSE, !.effect = FALSE,
                                         !.aborted = "loadInitialData"]
            /\ UNCHANGED inflight
       ELSE /\ Cardinality(inflight) < MaxInFlight
            /\ screen' = [Quiet(screen) EXCEPT !.isLoading = TRUE,
                                                !.effect = FALSE]
            /\ inflight' = inflight \cup
                  {IF ~SomeId(state.taskLists, screen.listId)
                   THEN ScreenRequest("getTaskList", screen.listId, None,
                                      "loadGet", inflight)
                   ELSE ScreenRequest("fetchTasks", screen.listId, None,
                                      "loadFetch", inflight)}
    /\ NoDispatch
    /\ lastSettled' = NothingSettled
    /\ UNCHANGED <<server, budget>>

\* The buttons are rendered once isLoading is false (part_000:158-160).
Shown == screen.mounted /\ ~screen.isLoading

\* The checkbox of a row (part_000:108-110) calls toggleStatus(task); the
\* rows are those of state.tasks[listId]. Without a listId, or without the
\* slice, tableRows returns [] (part_000:102-104): there is no checkbox to
\* click, and the guard of toggleStatus (74-77) is never reached.
clickCheckbox ==
    /\ Shown
    /\ screen.listId # Undefined
    /\ \E i \in 1..Len(SliceOrEmpty(state, screen.listId)) :
          LET task == state.tasks[screen.listId][i]
              updatedTask == [task EXCEPT !.status = Flip(task.status)]
          IN  Issue(Request("updateTask", screen.listId, task.id,
                            <<updatedTask>>, "toggle", budget))

\* The delete button of a row (part_000:138-151): api.deleteTask, its
\* rejection logged. The button exists only in a row, so never without a
\* listId: the guard of its handler (141-144) is never reached.
clickDeleteTask ==
    /\ Shown
    /\ screen.listId # Undefined
    /\ \E i \in 1..Len(SliceOrEmpty(state, screen.listId)) :
          Issue(Call("deleteTask", screen.listId,
                     state.tasks[screen.listId][i].id, <<>>))

\* The screen's deleteTaskList (part_000:88-99): await api.deleteTaskList,
\* then navigate("/").
clickDeleteTaskList ==
    /\ Shown
    /\ IF screen.listId = Undefined
       THEN Abort("deleteTaskList")
       ELSE Issue(ScreenRequest("deleteTaskList", screen.listId, None,
                                "screenDelete", inflight))

\* A navigation that aborts the screen's requests in flight.
navigateCancelling ==
    /\ ~fault
    /\ screen.mounted
    /\ screen' = [Quiet(screen) EXCEPT !.mounted = FALSE, !.effect = FALSE]
    /\ inflight' = {q \in inflight : q.role \in {"mount", "call"}}
    /\ NoDispatch
    /\ lastSettled' = NothingSettled
    /\ UNCHANGED <<server, budget>>

\* The user leaves the screen (back button, part_000:166-172, or the
\* browser's): the component unmounts. Nothing is done about the requests in
\* flight: the effect returns no cleanup and no request carries a signal.
navigate ==
    /\ ~fault
    /\ screen.mounted
    /\ screen' = [Quiet(screen) EXCEPT !.mounted = FALSE, !.effect = FALSE]
    /\ NoDispatch
    /\ lastSettled' = NothingSettled
    /\ UNCHANGED <<server, inflight, budget>>

\* The route parameter changes while the screen stays mounted: the load
\* effect, which depends on listId, is due again.
changeListId ==
    \E listId \in ListIds \ {screen.listId} :
        /\ ~fault
        /\ screen.mounted
        /\ budget > 0
        /\ budget' = budget - 1
        /\ screen' = [Quiet(screen) EXCEPT !.listId = listId, !.effect = TRUE]
        /\ NoDispatch
        /\ lastSettled' = NothingSettled
        /\ UNCHANGED <<server, inflight>>

(***************************************************************************)
(* The network: the server answers, or the request fails                    *)
(***************************************************************************)
Answered(r, status, data) ==
    [r EXCEPT !.phase = "responded", !.status = status, !.data = data]

\* The server handles request r and its response is on its way back.
Respond ==
    \E r \in inflight :
        /\ ~fault
        /\ r.phase = "sent"
        /\ LET rep == Serve(server, r)
           IN  /\ server' = rep.srv
               /\ inflight' = (inflight \ {r}) \cup {Answered(r, rep.status, rep.data)}
        /\ NoDispatch
        /\ lastSettled' = NothingSettled
        /\ screen' = Quiet(screen)
        /\ UNCHANGED budget

\* A catch block that logs and does not rethrow: the promise resolves.
CatchSwallows(r, status) ==
    /\ lastSettled' = Settled(r, status, "resolved")
    /\ NoDispatch

\* The catch block of every api function: console.error, then throw error.
\* Nothing is dispatched and the caller's promise rejects.
Catch(r, status) ==
    /\ lastSettled' = Settled(r, status, "rejected")
    /\ NoDispatch

\* The request fails and axios rejects: the server answers 500 without
\* acting on it, or no response reaches the client (status 0: transport
\* error, or the 10 s timeout of jsonHeaders, AppProvider.tsx:175-179). The
\* response can be lost after the server has acted on the request.
Fail ==
    \E r \in inflight, status \in {0, 500} :
        /\ ~fault
        /\ r.phase = "sent" \/ status = 0
        /\ ~Succeeds(status)
        /\ Catch(r, status)
        /\ inflight' = (inflight \ {r})
                          \cup Chain(r, lastSettled'.outcome)
                          \cup LoadChain(r, lastSettled'.outcome, inflight \ {r})
        /\ screen' = ScreenAfter(screen, r, lastSettled'.outcome, FALSE)
        /\ UNCHANGED <<server, budget>>

\* The rest of an api function, after its await: dispatch on a 2xx response,
\* the catch block on any other.
Settle ==
    \E r \in inflight :
        /\ ~fault
        /\ r.phase = "responded"
        /\ IF Succeeds(r.status)
           THEN /\ lastSettled' = Settled(r, r.status, "resolved")
                /\ Dispatch(CommandOf(r))
           ELSE Catch(r, r.status)
        /\ inflight' = (inflight \ {r})
                          \cup Chain(r, lastSettled'.outcome)
                          \cup LoadChain(r, lastSettled'.outcome, inflight \ {r})
        /\ screen' = ScreenAfter(screen, r, lastSettled'.outcome,
                                 Succeeds(r.status) /\ ~fault')
        /\ UNCHANGED <<server, budget>>

(***************************************************************************)
(* Specifications                                                           *)
(***************************************************************************)
\* After AppProvider's first render and its mount effect: the initial state,
\* and the provider's own fetchTaskLists request on its way.
MountedWith(srv) ==
    /\ state = initialState
    /\ fault = FALSE
    /\ prev = initialState
    /\ lastAction = NoAction
    /\ lastRef = NoRefs
    /\ server = srv
    /\ inflight = {Request("fetchTaskLists", None, None, <<>>, "mount", 0)}
    /\ lastSettled = NothingSettled

Mounted == MountedWith(InitServer)

\* The same with another route than the TaskListScreen's on display.
MountedElsewhere == Mounted /\ screen = NoScreen

Init == MountedElsewhere /\ budget = MaxCalls

\* The provider's ten api functions called in any order, the screen's toggle,
\* and the network.
Next ==
    \/ fetchTaskLists
    \/ getTaskList
    \/ createTaskList
    \/ updateTaskList
    \/ deleteTaskList
    \/ fetchTasks
    \/ createTask
    \/ getTask
    \/ updateTask
    \/ deleteTask
    \/ toggleStatus
    \/ Respond
    \/ Fail
    \/ Settle

Spec == Init /\ [][Next]_vars

\* The task traffic of TaskListScreen: fetches and toggles, and the network.
InitTasks == MountedElsewhere /\ budget = MaxTaskCalls

NextTasks ==
    \/ fetchTasks
    \/ toggleStatus
    \/ Respond
    \/ Fail
    \/ Settle

SpecTasks == InitTasks /\ [][NextTasks]_vars

\* The TaskListScreen opened on a route with or without a listId, right after
\* its first render: isLoading is true and the load effect is due.
OpenedScreen(listId) ==
    [mounted |-> TRUE, listId |-> listId, isLoading |-> TRUE,
     effect |-> TRUE, aborted |-> "none"]

InitScreen ==
    /\ \E srv \in {InitServer, TwoTaskServer} : MountedWith(srv)
    /\ budget = MaxClicks
    /\ \E listId \in ListIds \cup {Undefined} : screen = OpenedScreen(listId)

NextScreen ==
    \/ loadInitialData
    \/ clickCheckbox
    \/ clickDeleteTask
    \/ clickDeleteTaskList
    \/ navigate
    \/ changeListId
    \/ Respond
    \/ Fail
    \/ Settle

SpecScreen == InitScreen /\ [][NextScreen]_vars

\* The screen left to itself: opened on a list id, no clicks, no transport
\* errors. React runs every effect that is due, the server answers every
\* request, and the event loop delivers every response: weak fairness on each.
InitLoad ==
    /\ \E srv \in {InitServer, TwoTaskServer} : MountedWith(srv)
    /\ budget = MaxClicks
    /\ \E listId \in ListIds : screen = OpenedScreen(listId)

NextLoad ==
    \/ loadInitialData
    \/ Respond
    \/ Settle

\* Each of the three steps changes the screen or the requests in flight.
loadVars == <<inflight, screen>>

SpecLoad ==
    /\ InitLoad
    /\ [][NextLoad]_vars
    /\ WF_loadVars(loadInitialData)
    /\ WF_loadVars(Respond)
    /\ WF_loadVars(Settle)

(***************************************************************************)
(* The reducer on its own: any command the api can dispatch, in any order   *)
(***************************************************************************)
\* Number of cached entities of a store state.
RECURSIVE SumLen(_, _)
SumLen(tasks, keys) ==
    IF keys = {} THEN 0
    ELSE LET k == CHOOSE x \in keys : TRUE
         IN  Len(tasks[k]) + SumLen(tasks, keys \ {k})

Size(s) == Len(s.taskLists) + SumLen(s.tasks, DOMAIN s.tasks)

\* Response bodies that are arrays: the server lists each entity once.
DistinctIds(arr) ==
    \A i, j \in 1..Len(arr) : arr[i].id = arr[j].id => i = j

Arrays(S) ==
    {arr \in UNION {[1..n -> S] : n \in 0..MaxEntities} : DistinctIds(arr)}

TaskListArrays == Arrays(TaskList)
TaskArrays == Arrays(Task)

\* dispatch(a) with the payload an api function can pass.
Apply(a) ==
    /\ ~fault
    /\ Dispatch(a)
    /\ Size(state') <= MaxEntities

ApplyFetchTaskLists ==
    \E taskLists \in TaskListArrays :
        /\ Apply([type |-> FETCH_TASKLISTS, payload |-> taskLists])
        /\ UNCHANGED netVars

ApplyGetTaskList ==
    \E taskList \in TaskList :
        /\ Apply([type |-> GET_TASKLIST, payload |-> taskList])
        /\ UNCHANGED netVars

ApplyCreateTaskList ==
    \E taskList \in TaskList :
        /\ Apply([type |-> CREATE_TASKLIST, payload |-> taskList])
        /\ UNCHANGED netVars

ApplyUpdateTaskList ==
    \E taskList \in TaskList :
        /\ Apply([type |-> UPDATE_TASKLIST, payload |-> taskList])
        /\ UNCHANGED netVars

ApplyDeleteTaskList ==
    \E id \in ListIds :
        /\ Apply([type |-> DELETE_TASKLIST, payload |-> id])
        /\ UNCHANGED netVars

ApplyFetchTasks ==
    \E taskListId \in ListIds, tasks \in TaskArrays :
        /\ Apply([type |-> FETCH_TASKS,
                  payload |-> [taskListId |-> taskListId, tasks |-> tasks]])
        /\ UNCHANGED netVars

ApplyCreateTask ==
    \E taskListId \in ListIds, task \in Task :
        /\ Apply([type |-> CREATE_TASK,
                  payload |-> [taskListId |-> taskListId, task |-> task]])
        /\ UNCHANGED netVars

ApplyGetTask ==
    \E taskListId \in ListIds, task \in Task :
        /\ Apply([type |-> GET_TASK,
                  payload |-> [taskListId |-> taskListId, task |-> task]])
        /\ UNCHANGED netVars

\* The server answers PUT .../tasks/{taskId} with the task of that id.
ApplyUpdateTask ==
    \E taskListId \in ListIds, task \in Task :
        /\ Apply([type |-> UPDATE_TASK,
                  payload |-> [taskListId |-> taskListId, taskId |-> task.id,
                               task |-> task]])
        /\ UNCHANGED netVars

ApplyDeleteTask ==
    \E taskListId \in ListIds, taskId \in TaskIds :
        /\ Apply([type |-> DELETE_TASK,
                  payload |-> [taskListId |-> taskListId, taskId |-> taskId]])
        /\ UNCHANGED netVars

NextReducer ==
    \/ ApplyFetchTaskLists
    \/ ApplyGetTaskList
    \/ ApplyCreateTaskList
    \/ ApplyUpdateTaskList
    \/ ApplyDeleteTaskList
    \/ ApplyFetchTasks
    \/ ApplyCreateTask
    \/ ApplyGetTask
    \/ ApplyUpdateTask
    \/ ApplyDeleteTask

SpecReducer == Init /\ [][NextReducer]_vars

(***************************************************************************)
(* One call of the reducer: any state it can be called with, one command    *)
(***************************************************************************)
\* The arrays of at most n entries, ids repeated or not (CREATE_TASKLIST and
\* CREATE_TASK append whatever they are given).
ArraysUpTo(S, n) == UNION {[1..k -> S] : k \in 0..n}

\* The AppState values (AppProvider.tsx:6-9) of at most MaxEntities cached
\* entities: every one of them is what some sequence of commands leaves.
InitCommand ==
    /\ \E taskLists \in ArraysUpTo(TaskList, MaxEntities) :
       \E keys \in SUBSET ListIds :
       \E tasks \in [keys -> ArraysUpTo(Task, MaxEntities - Len(taskLists))] :
           /\ state = [taskLists |-> taskLists, tasks |-> tasks]
           /\ Size(state) <= MaxEntities
    /\ fault = FALSE
    /\ prev = state
    /\ lastAction = NoAction
    /\ lastRef = NoRefs
    /\ server = InitServer
    /\ inflight = {}
    /\ lastSettled = NothingSettled
    /\ budget = 0
    /\ screen = NoScreen

\* No command has been applied yet.
Fresh == lastAction.type = NoAction.type

\* reducer(state, action) is called once, with any of the ten commands.
NextCommand ==
    \/ Fresh /\ ApplyFetchTaskLists
    \/ Fresh /\ ApplyGetTaskList
    \/ Fresh /\ ApplyCreateTaskList
    \/ Fresh /\ ApplyUpdateTaskList
    \/ Fresh /\ ApplyDeleteTaskList
    \/ Fresh /\ ApplyFetchTasks
    \/ Fresh /\ ApplyCreateTask
    \/ Fresh /\ ApplyGetTask
    \/ Fresh /\ ApplyUpdateTask
    \/ Fresh /\ ApplyDeleteTask

SpecCommand == InitCommand /\ [][NextCommand]_vars

(***************************************************************************)
(* Properties                                                               *)
(***************************************************************************)
Is2xx(status) == status \in 200..299

\* Request r is in flight now and no longer after the step: its promise has
\* settled (a response merely arriving keeps it in flight).
Gone(r) ==
    \A q \in inflight' :
        ~(/\ q.role = r.role
          /\ q.n = r.n
          /\ q.op = r.op
          /\ q.listId = r.listId
          /\ q.taskId = r.taskId
          /\ q.arg = r.arg)

\* ... and it ended as a failure: no response reached the client (status 0),
\* or a non-2xx one did.
Failed(r) == Gone(r) /\ ~Is2xx(lastSettled'.status)

\* ... or with a 2xx response delivered to the client.
Fulfilled(r) ==
    /\ Gone(r)
    /\ r.phase = "responded"
    /\ Is2xx(r.status)
    /\ lastSettled'.status = r.status

Elems(arr) == {arr[i] : i \in 1..Len(arr)}

\* C1: when the request of any of the ten api functions ends in a non-2xx
\* response or in a transport error, the step that settles it dispatches
\* nothing (state and fault are as before) and the promise handed to the
\* caller rejects.
C1_FailureDispatchesNothing ==
    [][\A r \in inflight :
          Failed(r) =>
            /\ state' = state
            /\ fault' = fault
            /\ lastAction'.type = "NONE"
            /\ lastSettled'.outcome = "rejected"
            /\ lastSettled'.op = r.op
            /\ lastSettled'.listId = r.listId
            /\ lastSettled'.taskId = r.taskId]_vars

\* C1 witness: a deleteTask(L, T) answered 500 has rejected while T is still
\* cached in tasks[L].
C1_Witness ==
    /\ lastSettled.op = "deleteTask"
    /\ lastSettled.status = 500
    /\ lastSettled.outcome = "rejected"
    /\ lastSettled.listId \in DOMAIN state.tasks
    /\ SomeId(state.tasks[lastSettled.listId], lastSettled.taskId)

\* The action type each api function dispatches.
TypeFor(op) ==
    CASE op = "fetchTaskLists" -> FETCH_TASKLISTS
      [] op = "getTaskList" -> GET_TASKLIST
      [] op = "createTaskList" -> CREATE_TASKLIST
      [] op = "updateTaskList" -> UPDATE_TASKLIST
      [] op = "deleteTaskList" -> DELETE_TASKLIST
      [] op = "fetchTasks" -> FETCH_TASKS
      [] op = "createTask" -> CREATE_TASK
      [] op = "getTask" -> GET_TASK
      [] op = "updateTask" -> UPDATE_TASK
      [] op = "deleteTask" -> DELETE_TASK

\* Action a carries the body of r's response (for the two deletes, which have
\* no body, the ids of the call).
CarriesBody(a, r) ==
    /\ a.type = TypeFor(r.op)
    /\ CASE r.op = "fetchTaskLists" -> a.payload = r.data
         [] r.op \in {"getTaskList", "createTaskList", "updateTaskList"} ->
               a.payload = r.data[1]
         [] r.op = "deleteTaskList" -> a.payload = r.listId
         [] r.op = "fetchTasks" ->
               a.payload.taskListId = r.listId /\ a.payload.tasks = r.data
         [] r.op \in {"createTask", "getTask", "updateTask"} ->
               a.payload.taskListId = r.listId /\ a.payload.task = r.data[1]
         [] r.op = "deleteTask" ->
               a.payload.taskListId = r.listId /\ a.payload.taskId = r.taskId

\* C2: the step that settles a request with a 2xx response dispatches one
\* action, whose payload is the response body, and the store moves by exactly
\* one application of the reducer to it; and no step dispatches anything
\* unless it settles a request whose 2xx response has arrived.
C2_OneCommandFromResponseBody ==
    [][/\ \A r \in inflight :
             Fulfilled(r) =>
               /\ CarriesBody(lastAction', r)
               /\ prev' = state
               /\ fault' = reducer(state, lastAction').threw
               /\ state' = reducer(state, lastAction').state
       /\ (state' # state \/ fault' # fault \/ lastAction'.type # "NONE")
             => \E r \in inflight : Fulfilled(r)]_vars

\* C2 witness: updateTask(L, T, draft) has resolved and tasks[L] holds the
\* task the server returned, which differs from draft.
C2_Witness ==
    /\ lastSettled.op = "updateTask"
    /\ lastSettled.outcome = "resolved"
    /\ ~fault
    /\ lastAction.type = UPDATE_TASK
    /\ lastAction.payload.task # lastSettled.arg[1]
    /\ lastAction.payload.task \in Elems(state.tasks[lastSettled.listId])
    /\ lastSettled.arg[1] \notin Elems(state.tasks[lastSettled.listId])

\* C3: after any sequence of commands on a list id, tasks[listId] holds
\* exactly one entry for each task id that is present, and that entry is the
\* task object of the last command that referenced the id (no entry for an id
\* last removed or never named).
C3_OneEntryPerIdLastWriterWins ==
    \A l \in ListIds, t \in TaskIds :
        WithId(SliceOrEmpty(state, l), t) = lastRef[l][t]

\* The list id a task command is about.
TargetList == lastAction.payload.taskListId

\* C4: UPDATE_TASK or DELETE_TASK on a list id with no slice throws and
\* leaves the state without a slice for it; FETCH_TASKS always leaves a slice
\* (an empty one for an empty payload), and on a list id that has a slice the
\* two commands complete without a fault.
C4_AbsentSliceFaults ==
    /\ fault =>
          /\ lastAction.type \in {UPDATE_TASK, DELETE_TASK}
          /\ TargetList \notin DOMAIN prev.tasks
    /\ lastAction.type \in {UPDATE_TASK, DELETE_TASK} =>
          IF TargetList \in DOMAIN prev.tasks
          THEN ~fault /\ TargetList \in DOMAIN state.tasks
          ELSE fault /\ state = prev /\ TargetList \notin DOMAIN state.tasks
    /\ lastAction.type = FETCH_TASKS =>
          /\ TargetList \in DOMAIN state.tasks
          /\ state.tasks[TargetList] = lastAction.payload.tasks

\* C4 witness: DELETE_TASK on an absent slice has thrown.
C4_Witness ==
    /\ fault
    /\ lastAction.type = DELETE_TASK
    /\ TargetList \notin DOMAIN state.tasks

\* C5: a 2xx fetchTasks response replaces tasks[L] by its body and a 2xx
\* updateTask response replaces the cached task by its body, whatever was
\* cached and whatever the server holds by then; the promise resolves, so a
\* stale body that arrives last is stored and reported by nothing.
C5_LastAppliedWins ==
    [][\A r \in inflight :
          Fulfilled(r) =>
            /\ lastSettled'.outcome = "resolved"
            /\ ~fault'
            /\ r.op = "fetchTasks" =>
                  /\ r.listId \in DOMAIN state'.tasks
                  /\ state'.tasks[r.listId] = r.data
            /\ r.op = "updateTask" =>
                  /\ DOMAIN state'.tasks = DOMAIN state.tasks
                  /\ Len(state'.tasks[r.listId]) = Len(state.tasks[r.listId])
                  /\ \A i \in 1..Len(state.tasks[r.listId]) :
                        state'.tasks[r.listId][i] =
                            IF state.tasks[r.listId][i].id = r.taskId
                            THEN r.data[1]
                            ELSE state.tasks[r.listId][i]]_vars

\* C5 witness: the store agreed with the server on list L after an update,
\* then a fetchTasks body computed before the update was applied: tasks[L]
\* now differs from the server and no request for L is left in flight.
C5_Witness ==
    /\ lastAction.type = FETCH_TASKS
    /\ lastSettled.op = "fetchTasks"
    /\ lastSettled.outcome = "resolved"
    /\ TargetList \in DOMAIN prev.tasks
    /\ prev.tasks[TargetList] = server.tasks[TargetList]
    /\ state.tasks[TargetList] = lastAction.payload.tasks
    /\ state.tasks[TargetList] # server.tasks[TargetList]
    /\ \A r \in inflight : r.listId # TargetList

\* The requests of the toggle started by call n that are in flight after the
\* step.
OfToggle(n) == {q \in inflight' : q.n = n /\ q.role \in {"toggle", "refetch"}}

\* C6: the refetch of a toggle enters flight only in the step that settles
\* the toggle's updateTask with a 2xx response and applies its UPDATE_TASK;
\* the update and the refetch of one toggle are never in flight together;
\* and when the update fails, the store is unchanged and no refetch follows.
C6_RefetchChainedAfterUpdate ==
    [][/\ \A n \in 0..(MaxCalls + MaxTaskCalls) : Cardinality(OfToggle(n)) <= 1
       /\ \A q \in inflight' :
             (q.role = "refetch" /\ ~\E p \in inflight : p.role = "refetch" /\ p.n = q.n)
               => /\ q.op = "fetchTasks"
                  /\ q.phase = "sent"
                  /\ \E u \in inflight :
                        /\ u.role = "toggle" /\ u.n = q.n /\ u.listId = q.listId
                        /\ Fulfilled(u)
                        /\ lastAction'.type = UPDATE_TASK
                        /\ lastAction'.payload.taskListId = u.listId
                        /\ lastAction'.payload.taskId = u.taskId
                        /\ prev' = state
                        /\ state' = reducer(state, lastAction').state
       /\ \A u \in inflight :
             (u.role = "toggle" /\ Failed(u))
               => /\ state' = state
                  /\ ~\E q \in inflight' : q.role = "refetch" /\ q.n = u.n]_vars

\* C6 witness: a toggle's updateTask has resolved, its UPDATE_TASK has been
\* applied and its refetch is in flight.
C6_Witness ==
    /\ lastSettled.role = "toggle"
    /\ lastSettled.outcome = "resolved"
    /\ lastAction.type = UPDATE_TASK
    /\ state # prev
    /\ \E q \in inflight : q.role = "refetch" /\ q.listId = lastSettled.listId

\* C7: dispatching the action of a successful call a second time, with the
\* same response, leaves the state as it was after the first.
C7_EveryCallIdempotent ==
    (~fault /\ lastAction.type # "NONE") => reducer(state, lastAction) = Ok(state)

\* C8: after FETCH_TASKLISTS with payload X, taskLists is X and tasks is what
\* it was, and FETCH_TASKLISTS with X once more yields the same state.
C8_ReplaceTaskListsIdempotent ==
    lastAction.type = FETCH_TASKLISTS =>
        /\ state.taskLists = lastAction.payload
        /\ state.tasks = prev.tasks
        /\ reducer(state, lastAction) = Ok(state)

\* C8 witness: a non-empty X has replaced different, non-empty task lists
\* while some tasks were cached.
C8_Witness ==
    /\ lastAction.type = FETCH_TASKLISTS
    /\ lastAction.payload # <<>>
    /\ prev.taskLists # <<>>
    /\ prev.taskLists # lastAction.payload
    /\ \E l \in DOMAIN state.tasks : state.tasks[l] # <<>>

\* The positions of arr whose entry has an id other than id, and the rank of
\* such a position among them.
Kept(arr, id) == {i \in 1..Len(arr) : arr[i].id # id}
Rank(arr, id, i) == Cardinality({j \in Kept(arr, id) : j <= i})

\* C9: after DELETE_TASKLIST with id, taskLists holds no entry with that id
\* and holds every other entry of before, unmodified and in the same order;
\* when no entry had the id, taskLists is as before.
C9_RemoveTaskListExact ==
    lastAction.type = DELETE_TASKLIST =>
        LET old == prev.taskLists
            new == state.taskLists
            id == lastAction.payload
        IN  /\ ~SomeId(new, id)
            /\ Len(new) = Cardinality(Kept(old, id))
            /\ \A i \in Kept(old, id) : new[Rank(old, id, i)] = old[i]
            /\ ~SomeId(old, id) => new = old

\* C9 witness: the middle one of three entries was removed and the two
\* others, which differ, remain.
C9_Witness ==
    /\ lastAction.type = DELETE_TASKLIST
    /\ Len(prev.taskLists) = 3
    /\ prev.taskLists[2].id = lastAction.payload
    /\ Len(state.taskLists) = 2
    /\ state.taskLists[1] # state.taskLists[2]

\* C10: DELETE_TASKLIST leaves the tasks mapping as it was, so a cached slice
\* of the deleted list stays.
C10_RemoveTaskListKeepsTasks ==
    lastAction.type = DELETE_TASKLIST => state.tasks = prev.tasks

\* C10 witness: deleteTaskList(id) has resolved, id is no longer in taskLists
\* and tasks[id] still holds its tasks.
C10_Witness ==
    /\ lastSettled.op = "deleteTaskList"
    /\ lastSettled.outcome = "resolved"
    /\ lastAction.type = DELETE_TASKLIST
    /\ SomeId(prev.taskLists, lastAction.payload)
    /\ ~SomeId(state.taskLists, lastAction.payload)
    /\ lastAction.payload \in DOMAIN state.tasks
    /\ state.tasks[lastAction.payload] # <<>>

\* The state with list id l's slice put in the order perm.
Reordered(s, l, perm) ==
    [s EXCEPT !.tasks[l] = [i \in 1..Len(s.tasks[l]) |-> s.tasks[l][perm[i]]]]

Perms(n) == {perm \in [1..n -> 1..n] : \A i, j \in 1..n : perm[i] = perm[j] => i = j}

\* The positions of a slice whose task is CLOSED.
ClosedAt(tasks) == {i \in 1..Len(tasks) : tasks[i].status = CLOSED}

\* C11: the completion percentage of a list is closed / total * 100 over
\* tasks[listId], as a JavaScript number (the quotient rounded, then the
\* product rounded); 0 for an empty or absent slice; 100 when every task is
\* CLOSED; the same for every reordering of the slice; and 50 for the slice
\* [T1 OPEN, T2 CLOSED].
C11_CompletionPercentage ==
    \A l \in ListIds :
        LET pct == completionPercentage(state, l)
        IN  IF l \notin DOMAIN state.tasks \/ SliceOrEmpty(state, l) = <<>>
            THEN pct = Double(0)
            ELSE LET tasks == state.tasks[l]
                     closed == Cardinality(ClosedAt(tasks))
                 IN  /\ pct = DoubleTimes(DoubleDivide(closed, Len(tasks)), 100)
                     /\ closed = Len(tasks) => pct = Double(100)
                     /\ closed = 0 => pct = Double(0)
                     /\ \A perm \in Perms(Len(tasks)) :
                           completionPercentage(Reordered(state, l, perm), l) = pct
                     /\ tasks = <<[id |-> "T1", status |-> OPEN],
                                  [id |-> "T2", status |-> CLOSED]>>
                           => pct = Double(50)

\* C11 witness: with taskLists = [L1] and no tasks cached, FETCH_TASKS for L1
\* with [T1 OPEN, T2 CLOSED] has been applied and the percentage of L1 is 50.
C11_Witness ==
    /\ lastAction.type = FETCH_TASKS
    /\ lastAction.payload.taskListId = "L1"
    /\ DOMAIN prev.tasks = {}
    /\ Len(state.taskLists) = 1
    /\ state.taskLists[1].id = "L1"
    /\ state.tasks["L1"] = <<[id |-> "T1", status |-> OPEN],
                              [id |-> "T2", status |-> CLOSED]>>
    /\ completionPercentage(state, "L1") = Double(50)

\* The slice of the toggle scenario, and the same with T1 closed.
OpenAndClosed ==
    <<[id |-> "T1", status |-> OPEN], [id |-> "T2", status |-> CLOSED]>>

\* Request r is a toggle of T1 to CLOSED that meets tasks[L1] = [T1 OPEN,
\* T2 CLOSED] when it is applied.
ScenarioToggle(r) ==
    /\ r.listId = "L1"
    /\ r.taskId = "T1"
    /\ r.arg[1].status = CLOSED
    /\ SliceOrEmpty(state, "L1") = OpenAndClosed

\* C12 as stated: the toggle's successful updateTask applies UpsertTask
\* (GET_TASK: replace by id if present, else append) with the replaced task,
\* and in the scenario the completion percentage of L1 becomes 100.
C12_ToggleAppliesUpsert ==
    [][\A r \in inflight :
          (r.role = "toggle" /\ Fulfilled(r)) =>
            /\ lastAction'.type = GET_TASK
            /\ state' = ReduceGetTask(state,
                            [payload |-> [taskListId |-> r.listId,
                                          task |-> r.data[1]]])
            /\ ScenarioToggle(r) =>
                  completionPercentage(state', "L1") = Double(100)]_vars

\* C12 amended: the toggle's successful updateTask applies ReplaceTaskField
\* (UPDATE_TASK) with the whole task object of the response: the entries of
\* tasks[listId] with the toggled id are replaced by it, nothing is appended,
\* and in the scenario the completion percentage of L1 becomes 100.
C12_ToggleAppliesReplaceTaskField ==
    [][\A r \in inflight :
          (r.role = "toggle" /\ Fulfilled(r)) =>
            /\ lastAction'.type = UPDATE_TASK
            /\ lastAction'.payload.task = r.data[1]
            /\ r.data[1] = r.arg[1]
            /\ ~fault'
            /\ r.listId \in DOMAIN state.tasks
            /\ state'.tasks[r.listId] =
                  [i \in 1..Len(state.tasks[r.listId]) |->
                      IF state.tasks[r.listId][i].id = r.taskId
                      THEN r.data[1]
                      ELSE state.tasks[r.listId][i]]
            /\ ScenarioToggle(r) =>
                  completionPercentage(state', "L1") = Double(100)]_vars

\* C12 witness: T1 of [T1 OPEN, T2 CLOSED] has been toggled, the update has
\* resolved and the completion percentage of L1 is 100.
C12_Witness ==
    /\ lastSettled.role = "toggle"
    /\ lastSettled.outcome = "resolved"
    /\ lastAction.type = UPDATE_TASK
    /\ lastAction.payload.taskId = "T1"
    /\ SliceOrEmpty(prev, "L1") = OpenAndClosed
    /\ SliceOrEmpty(state, "L1") =
          <<[id |-> "T1", status |-> CLOSED], [id |-> "T2", status |-> CLOSED]>>
    /\ completionPercentage(state, "L1") = Double(100)

\* The requests that enter flight in the step.
Entering == {q \in inflight' : q.phase = "sent" /\ q \notin inflight}

\* C13: while the route has no listId, no request enters flight; a handler
\* that finds listId missing (the load effect, deleteTaskList) returns with
\* no request sent, nothing dispatched and the store unchanged, and the load
\* effect leaves isLoading false. toggleStatus and the delete-task button
\* belong to rows, and no row is rendered without a listId: no request of
\* theirs enters flight either.
C13_MissingListIdAborts ==
    [][/\ screen.listId = Undefined => Entering = {}
       /\ screen'.aborted # "none" =>
             /\ screen.listId = Undefined
             /\ inflight' = inflight
             /\ state' = state
             /\ fault' = fault
             /\ lastAction'.type = "NONE"
             /\ server' = server
             /\ screen'.aborted = "loadInitialData" => ~screen'.isLoading
       /\ (screen.listId = Undefined /\ screen.mounted /\ screen.effect
               /\ ~screen'.effect /\ screen'.mounted)
             => screen'.aborted = "loadInitialData"]_vars

\* C13 witness: on a route without listId the load has ended with isLoading
\* false and a click on Delete TaskList has just been aborted.
C13_Witness ==
    /\ screen.listId = Undefined
    /\ screen.mounted
    /\ ~screen.isLoading
    /\ screen.aborted = "deleteTaskList"
    /\ \A q \in inflight : q.role = "mount"

\* Request q left flight in the step because its promise settled.
SettledNow(q) ==
    /\ lastSettled'.op = q.op
    /\ lastSettled'.listId = q.listId
    /\ lastSettled'.role = q.role
    /\ lastSettled'.outcome \in {"resolved", "rejected"}

\* C14: no request is cancelled: a request leaves flight only by settling,
\* also when the user leaves the screen or listId changes, and a 2xx response
\* is dispatched to the store whether or not the screen that sent the request
\* is still there.
C14_NoCancellation ==
    [][/\ \A q \in inflight : Gone(q) => SettledNow(q)
       /\ \A r \in inflight :
             (Fulfilled(r) /\ (~screen.mounted \/ r.listId # screen.listId)) =>
                /\ CarriesBody(lastAction', r)
                /\ state' = reducer(state, lastAction').state]_vars

\* C14 witness: the user has left the screen and the fetchTasks of its load
\* has then resolved and changed tasks.
C14_Witness ==
    /\ ~screen.mounted
    /\ lastSettled.role = "loadFetch"
    /\ lastSettled.outcome = "resolved"
    /\ lastAction.type = FETCH_TASKS
    /\ state.tasks # prev.tasks
    /\ lastAction.payload.taskListId \in DOMAIN state.tasks

\* The step runs the load effect with a listId.
LoadStarts ==
    /\ screen.mounted /\ screen.effect /\ screen.listId # Undefined
    /\ screen'.mounted /\ ~screen'.effect /\ screen'.listId = screen.listId

\* C18: a load requests getTaskList only when listId is not in taskLists;
\* its fetchTasks is sent by the effect itself when the list is known, and
\* otherwise only in the step in which its getTaskList resolves; a failed
\* getTaskList ends the load without a fetchTasks; a failed fetchTasks
\* leaves the store as it was; and whenever a load ends isLoading is false.
C18_InitialLoadOrder ==
    [][/\ \A q \in Entering :
             /\ q.role = "loadGet" =>
                   /\ LoadStarts
                   /\ q.op = "getTaskList"
                   /\ q.listId = screen.listId
                   /\ ~SomeId(state.taskLists, q.listId)
             /\ q.role = "loadFetch" =>
                   /\ q.op = "fetchTasks"
                   /\ \/ /\ LoadStarts
                         /\ q.listId = screen.listId
                         /\ SomeId(state.taskLists, q.listId)
                      \/ \E g \in inflight :
                            /\ g.role = "loadGet"
                            /\ g.listId = q.listId
                            /\ Fulfilled(g)
                            /\ lastAction'.type = GET_TASKLIST
       /\ LoadStarts => screen'.isLoading /\ Cardinality(Entering) = 1
       /\ \A r \in inflight :
             /\ (r.role = "loadGet" /\ Failed(r)) =>
                   /\ Entering = {}
                   /\ state' = state
                   /\ screen'.mounted => ~screen'.isLoading
             /\ (r.role = "loadFetch" /\ Gone(r)) =>
                   /\ screen'.mounted => ~screen'.isLoading
                   /\ Failed(r) => state' = state /\ ~fault']_vars

\* C18 witness: the getTaskList of a load has failed: isLoading is false and
\* no fetchTasks of a load is in flight.
C18_Witness ==
    /\ screen.mounted
    /\ lastSettled.role = "loadGet"
    /\ lastSettled.outcome = "rejected"
    /\ ~screen.isLoading
    /\ \A q \in inflight : q.role # "loadFetch"

\* C15: tasks starts with no keys; a key appears only in the step in which a
\* fetchTasks, createTask or getTask for that list id resolves; a fetchTasks
\* that returns no tasks leaves the key present with the empty sequence; and
\* no step removes a key.
C15_TasksKeys ==
    /\ DOMAIN state.tasks = {}
    /\ [][
          /\ DOMAIN state.tasks \subseteq DOMAIN state'.tasks
          /\ \A l \in DOMAIN state'.tasks \ DOMAIN state.tasks :
                \E r \in inflight :
                   /\ Fulfilled(r)
                   /\ r.op \in {"fetchTasks", "createTask", "getTask"}
                   /\ r.listId = l
          /\ \A q \in inflight :
                (Fulfilled(q) /\ q.op = "fetchTasks" /\ q.data = <<>>) =>
                   /\ q.listId \in DOMAIN state'.tasks
                   /\ state'.tasks[q.listId] = <<>>
       ]_vars

\* C15 witness: a fetchTasks that returned no tasks has resolved: its list id
\* is a key with the empty sequence, while another list id is no key at all.
C15_Witness ==
    /\ lastSettled.op = "fetchTasks"
    /\ lastSettled.outcome = "resolved"
    /\ lastSettled.listId \in DOMAIN state.tasks
    /\ lastSettled.listId \notin DOMAIN prev.tasks
    /\ state.tasks[lastSettled.listId] = <<>>
    /\ \E l \in ListIds : l \notin DOMAIN state.tasks

\* The task lists and the tasks a store holds.
ListEntities(s) == Elems(s.taskLists)
TaskEntities(s) == UNION {Elems(s.tasks[l]) : l \in DOMAIN s.tasks}

\* The entities in the body of the 2xx response delivered by this step.
BodyOf(ops) ==
    UNION {Elems(r.data) : r \in {q \in inflight : Fulfilled(q) /\ q.op \in ops}}

\* C16: the store starts with no entity, and every task list and task a step
\* that changes the store adds to it is an object of the body of the 2xx
\* response that step delivers: the store never holds an entity or an id the
\* client built.
C16_ServerAssignedIds ==
    /\ ListEntities(state) = {}
    /\ TaskEntities(state) = {}
    /\ [][
          \/ state' = state
          \/ /\ ListEntities(state') \subseteq
                   ListEntities(state) \cup
                   BodyOf({"fetchTaskLists", "getTaskList", "createTaskList",
                           "updateTaskList"})
             /\ TaskEntities(state') \subseteq
                   TaskEntities(state) \cup
                   BodyOf({"fetchTasks", "createTask", "getTask", "updateTask"})
       ]_vars

\* C16 witness: a createTask has resolved and the store now holds a task it
\* did not hold before, under the id the server assigned last.
C16_Witness ==
    /\ lastSettled.op = "createTask"
    /\ lastSettled.outcome = "resolved"
    /\ ~fault
    /\ server.nextTask > 1
    /\ \E t \in TaskEntities(state) \ TaskEntities(prev) :
          t.id = TaskIdSeq[server.nextTask - 1]

\* Sequence after is sequence before with x upserted: x in the place of every
\* entry of its id, or at the end when there is none.
Upserted(before, after, x) ==
    IF \E i \in 1..Len(before) : before[i].id = x.id
    THEN /\ Len(after) = Len(before)
         /\ \A i \in 1..Len(before) :
               after[i] = IF before[i].id = x.id THEN x ELSE before[i]
    ELSE after = Append(before, x)

\* C17: GET_TASKLIST and GET_TASK replace in place or append: an entry of the
\* payload's id is replaced where it stands by the whole payload, length and
\* other entries unchanged; without such an entry the payload goes to the end
\* and the length grows by one; GET_TASK on an absent slice makes the slice
\* [task] and does not throw.
C17_UpsertReplacesOrAppends ==
    /\ lastAction.type = GET_TASKLIST =>
          /\ ~fault
          /\ Upserted(prev.taskLists, state.taskLists, lastAction.payload)
          /\ state.tasks = prev.tasks
    /\ lastAction.type = GET_TASK =>
          LET l == lastAction.payload.taskListId
              task == lastAction.payload.task
          IN  /\ ~fault
              /\ l \in DOMAIN state.tasks
              /\ Upserted(SliceOrEmpty(prev, l), state.tasks[l], task)
              /\ l \notin DOMAIN prev.tasks => state.tasks[l] = <<task>>
              /\ state.taskLists = prev.taskLists
              /\ \A k \in DOMAIN prev.tasks \ {l} :
                    k \in DOMAIN state.tasks /\ state.tasks[k] = prev.tasks[k]

\* C17 witness: a GET_TASK has replaced the first of at least two cached
\* tasks by a different version of it.
C17_Witness ==
    /\ lastAction.type = GET_TASK
    /\ ~fault
    /\ lastAction.payload.taskListId \in DOMAIN prev.tasks
    /\ LET before == prev.tasks[lastAction.payload.taskListId]
           after == state.tasks[lastAction.payload.taskListId]
       IN  /\ Len(before) >= 2
           /\ before[1].id = lastAction.payload.task.id
           /\ before[2].id # lastAction.payload.task.id
           /\ before[1] # lastAction.payload.task
           /\ after = <<lastAction.payload.task, before[2]>> \o SubSeq(before, 3, Len(before))

\* C19: with a server that gives every task it creates an id of its own, no
\* slice tasks[l] ever holds two entries of the same task id, however the
\* calls in flight interleave.
C19_NoDuplicateTaskIds ==
    \A l \in DOMAIN state.tasks : DistinctIds(state.tasks[l])

\* The load effect is at rest: the spinner is off and no request of the
\* effect is in flight.
Quiescent ==
    /\ ~screen.isLoading
    /\ \A r \in inflight : r.role \notin {"loadGet", "loadFetch"}

\* C20: when the screen is opened on a list the server has (so that every
\* request is answered successfully, with data that never changes), the
\* screen eventually becomes quiescent: from some point on isLoading stays
\* false and no further fetchTasks request is issued.
C20_EventuallyQuiescent ==
    SomeId(server.lists, screen.listId) => <>[]Quiescent

TaskListCommands ==
    {FETCH_TASKLISTS, GET_TASKLIST, CREATE_TASKLIST, UPDATE_TASKLIST,
     DELETE_TASKLIST}

TaskCommands == {FETCH_TASKS, CREATE_TASK, GET_TASK, UPDATE_TASK, DELETE_TASK}

\* C21: commands touch only their own part of the state. A task-list command
\* leaves the tasks mapping as it was; a task command for list l leaves
\* taskLists and every slice of another list as they were; UPDATE_TASKLIST
\* with an id not in taskLists, and UPDATE_TASK or DELETE_TASK with a task id
\* not in an existing slice, leave the sequence as it was (nothing appended).
C21_CommandsTouchOwnPart ==
    /\ lastAction.type \in TaskListCommands => state.tasks = prev.tasks
    /\ lastAction.type \in TaskCommands =>
          LET l == lastAction.payload.taskListId
          IN  /\ state.taskLists = prev.taskLists
              /\ DOMAIN state.tasks \ {l} = DOMAIN prev.tasks \ {l}
              /\ \A m \in DOMAIN prev.tasks \ {l} :
                    state.tasks[m] = prev.tasks[m]
    /\ lastAction.type = UPDATE_TASKLIST =>
          (~SomeId(prev.taskLists, lastAction.payload.id) =>
              state.taskLists = prev.taskLists)
    /\ lastAction.type \in {UPDATE_TASK, DELETE_TASK} =>
          LET l == lastAction.payload.taskListId
          IN  (l \in DOMAIN prev.tasks
               /\ ~SomeId(prev.tasks[l], lastAction.payload.taskId)) =>
                  /\ ~fault
                  /\ state.tasks[l] = prev.tasks[l]

\* C21 witness: an UPDATE_TASK for a task id that its non-empty slice does
\* not hold has been applied, while a task list and the non-empty slice of
\* another list are cached.
C21_Witness ==
    /\ lastAction.type = UPDATE_TASK
    /\ ~fault
    /\ prev.taskLists # <<>>
    /\ lastAction.payload.taskListId \in DOMAIN prev.tasks
    /\ prev.tasks[lastAction.payload.taskListId] # <<>>
    /\ ~SomeId(prev.tasks[lastAction.payload.taskListId],
               lastAction.payload.taskId)
    /\ \E m \in DOMAIN prev.tasks \ {lastAction.payload.taskListId} :
          prev.tasks[m] # <<>> /\ state.tasks[m] = prev.tasks[m]

=============================================================================
